---- MODULE Spec2Model ----
(***************************************************************************)
(* HelloTriangleApplication (src/VulkanTesting/main.cpp): the bootstrap of *)
(* a Vulkan rendering context, the per-frame acquire/submit/present        *)
(* protocol and the teardown, as a state machine.  The single application  *)
(* thread is the program counter pc; the Vulkan runtime (physical device   *)
(* table, presentation engine, device queues, binary semaphores) is the    *)
(* environment the thread calls into and that progresses asynchronously.   *)
(***************************************************************************)
EXTENDS Integers, Sequences, FiniteSets

(***************************************************************************)
(* Bounds of the model.                                                    *)
(***************************************************************************)
\* drawFrame calls per run
MaxFrames == 2
\* images the runtime may put in the swap chain
MaxImages == 2
\* physical devices the runtime enumerates
MaxDevices == 2
\* queue families in the family table of a single-GPU system
MaxFamilies == 3
\* entries in the runtime's instance extension list
MaxExtensions == 3
\* entries in a device's surface format list and present mode list
MaxChoices == 2

(***************************************************************************)
(* Program constants.                                                      *)
(***************************************************************************)
\* const std::vector<const char*> deviceExtensions
deviceExtensions == <<"VK_KHR_swapchain">>

\* VK_NULL_HANDLE: physical device handles are the positions 1..deviceCount
\* of the runtime's device table
VK_NULL_HANDLE == 0

\* EXIT_SUCCESS / EXIT_FAILURE of main
EXIT_SUCCESS == 0
EXIT_FAILURE == 1

\* const int WIDTH, HEIGHT: the configured window size
WIDTH == 800
HEIGHT == 600

\* the currentExtent.width with which a window manager leaves the extent open:
\* the largest value of the extent type, here an unsigned type of 31 bits
UINT32_MAX == 2147483647

\* const std::vector<const char*> validationLayers
validationLayers == <<"VK_LAYER_KHRONOS_validation">>

\* listDebugRequiredExtensions
VK_EXT_DEBUG_UTILS_EXTENSION_NAME == "VK_EXT_debug_utils"

Range(s) == {s[i] : i \in 1..Len(s)}

\* the lists over S of length up to n
Lists(S, n) == UNION {[1..k -> S] : k \in 0..n}

Max(S) == CHOOSE x \in S : \A y \in S : y <= x

Min(S) == CHOOSE x \in S : \A y \in S : x <= y

(***************************************************************************)
(* The runtime's physical devices.  A device is its queue family table     *)
(* (per family: the graphics flag bit and the surface-support answer), its *)
(* advertised device extensions, its surface formats and present modes and *)
(* the image-count limits of its surface capabilities.                     *)
(***************************************************************************)
FamilyFlags == [graphics : BOOLEAN, present : BOOLEAN]

FamilyTables == UNION {[1..n -> FamilyFlags] : n \in 0..MaxFamilies}

GP == [graphics |-> TRUE, present |-> TRUE]

GOnly == [graphics |-> TRUE, present |-> FALSE]

POnly == [graphics |-> FALSE, present |-> TRUE]

\* the surface format chooseSwapSurfaceFormat looks for
PreferredFormat ==
    [format |-> "VK_FORMAT_B8G8R8A8_UNORM", colorSpace |-> "VK_COLORSPACE_SRGB_NONLINEAR_KHR"]

Extent(w, h) == [width |-> w, height |-> h]

Caps ==
    [minImageCount |-> 1, maxImageCount |-> 2,
     currentExtent |-> Extent(800, 600),
     minImageExtent |-> Extent(1, 1), maxImageExtent |-> Extent(4096, 4096)]

\* single-GPU systems: every family table, adequate swap-chain support
WideDevices ==
    {[families |-> ft, extensions |-> <<"VK_KHR_maintenance1", "VK_KHR_swapchain">>,
      formats |-> <<PreferredFormat>>, presentModes |-> <<"VK_PRESENT_MODE_FIFO_KHR">>, caps |-> Caps] :
        ft \in FamilyTables}

\* multi-GPU systems: one device kind per combination of the three predicates
KindDevices ==
    {[families |-> ft, extensions |-> e, formats |-> f, presentModes |-> p, caps |-> Caps] :
        ft \in {<<GP>>, <<GOnly, POnly>>, <<GOnly>>},
        e \in {<<"VK_KHR_maintenance1">>, <<"VK_KHR_maintenance1", "VK_KHR_swapchain">>},
        f \in {<<>>, <<PreferredFormat>>},
        p \in {<<>>, <<"VK_PRESENT_MODE_FIFO_KHR">>}}

\* single-GPU systems: every list of advertised device extensions
ExtensionDevices ==
    {[families |-> <<GP>>, extensions |-> e, formats |-> <<PreferredFormat>>,
      presentModes |-> <<"VK_PRESENT_MODE_FIFO_KHR">>, caps |-> Caps] :
        e \in Lists({"VK_KHR_maintenance1", "VK_KHR_swapchain"}, MaxExtensions)}

DeviceTables ==
    {<<d>> : d \in WideDevices \cup ExtensionDevices}
        \cup UNION {[1..n -> KindDevices] : n \in 0..MaxDevices}

GoodDevice ==
    [families |-> <<GP>>, extensions |-> <<"VK_KHR_maintenance1", "VK_KHR_swapchain">>,
     formats |-> <<PreferredFormat>>, presentModes |-> <<"VK_PRESENT_MODE_FIFO_KHR">>, caps |-> Caps]

SplitDevice == [GoodDevice EXCEPT !.families = <<GOnly, POnly>>]

NoFormatsDevice == [GoodDevice EXCEPT !.formats = <<>>]

\* the systems the whole run is checked on
RunDeviceTables ==
    {<<>>, <<NoFormatsDevice>>, <<GoodDevice>>, <<SplitDevice, NoFormatsDevice>>}

\* what readFile finds at a shader path
FileStates == {"missing", "empty", "present"}

\* both shader binaries in place
ShaderFilesPresent == [vert |-> "present", frag |-> "present"]

VARIABLES
    devices,
    shaderFiles,
    enableValidationLayers,
    availableLayers,
    supportedExtensions,
    layerExtensions,
    glfwExtensions,
    extensionsAvailable,
    queueCreateInfos,
    swapChainCreateInfo,
    pc,
    what,
    exitCode,
    created,
    destroyed,
    physicalDevice,
    graphicsQueue,
    presentQueue,
    swapChainImages,
    swapChainImageViews,
    swapChainFramebuffers,
    commandBuffers,
    windowShouldClose,
    frame,
    imageIndex,
    calls,
    imageState,
    imageAvailableSemaphore,
    renderFinishedSemaphore,
    pendingAcquire,
    graphicsQueueWork,
    presentQueueWork,
    acquired,
    rendered,
    presented

\* what the runtime and the windowing library answer to the instance-level
\* queries: the layers, the instance extensions of the implementation, those
\* the validation layer brings along, the extensions GLFW asks for
instanceEnv == <<availableLayers, supportedExtensions, layerExtensions, glfwExtensions>>

\* shaderFiles: the state of shaders/vert.spv and shaders/frag.spv on disk
envVars == <<devices, enableValidationLayers, instanceEnv, shaderFiles>>

\* what the init calls computed: the value checkGlfwRequiredExtensionsAvailable
\* returned, the queue requests and the swap chain request handed to the runtime
infoVars == <<extensionsAvailable, queueCreateInfos, swapChainCreateInfo>>

mainVars == <<pc, what, exitCode>>

handleVars == <<physicalDevice, graphicsQueue, presentQueue>>

chainVars == <<swapChainImages, swapChainImageViews, swapChainFramebuffers, commandBuffers>>

objVars == <<created, destroyed, handleVars, chainVars, infoVars>>

loopVars == <<windowShouldClose, frame, imageIndex, calls>>

gpuVars == <<imageState, imageAvailableSemaphore, renderFinishedSemaphore,
             pendingAcquire, graphicsQueueWork, presentQueueWork,
             acquired, rendered, presented>>

vars == <<envVars, mainVars, objVars, loopVars, gpuVars>>


(***************************************************************************)
(* Device selection: findQueueFamilies, checkDeviceExtensionSupport,       *)
(* querySwapChainSupport, isDeviceSuitable and the loop of                 *)
(* pickPhysicalDevice, each computed the way the code computes it.         *)
(***************************************************************************)
\* an empty std::optional<uint32_t>
nullopt == -1

\* QueueFamilyIndices::isComplete
isComplete(indices) ==
    indices.graphicsFamily # nullopt /\ indices.presentFamily # nullopt

\* the for loop of findQueueFamilies: families[i + 1] is queueFamilies[i]
RECURSIVE ScanFamilies(_, _, _)
ScanFamilies(families, i, indices) ==
    IF i >= Len(families)
    THEN indices
    ELSE LET g == IF families[i + 1].graphics THEN i ELSE indices.graphicsFamily
             p == IF families[i + 1].present THEN i ELSE indices.presentFamily
         IN  ScanFamilies(families, i + 1, [graphicsFamily |-> g, presentFamily |-> p])

\* a scan that keeps the first match of each role
RECURSIVE ScanFamiliesFirst(_, _, _)
ScanFamiliesFirst(families, i, indices) ==
    IF i >= Len(families)
    THEN indices
    ELSE LET g == IF families[i + 1].graphics /\ indices.graphicsFamily = nullopt
                  THEN i ELSE indices.graphicsFamily
             p == IF families[i + 1].present /\ indices.presentFamily = nullopt
                  THEN i ELSE indices.presentFamily
         IN  ScanFamiliesFirst(families, i + 1, [graphicsFamily |-> g, presentFamily |-> p])

findQueueFamilies_FirstMatch(device) ==
    ScanFamiliesFirst(device.families, 0,
                      [graphicsFamily |-> nullopt, presentFamily |-> nullopt])

findQueueFamilies(device) ==
    ScanFamilies(device.families, 0,
                 [graphicsFamily |-> nullopt, presentFamily |-> nullopt])

\* the erase loop of checkDeviceExtensionSupport over availableExtensions
RECURSIVE EraseAvailable(_, _, _)
EraseAvailable(requiredExtensions, availableExtensions, i) ==
    IF i > Len(availableExtensions)
    THEN requiredExtensions
    ELSE EraseAvailable(requiredExtensions \ {availableExtensions[i]},
                        availableExtensions, i + 1)

\* a check that looks at the first advertised extension only
checkDeviceExtensionSupport_FirstEntry(device) ==
    EraseAvailable(Range(deviceExtensions), SubSeq(device.extensions, 1, 1), 1) = {}

checkDeviceExtensionSupport(device) ==
    EraseAvailable(Range(deviceExtensions), device.extensions, 1) = {}

querySwapChainSupport(device) ==
    [capabilities |-> device.caps,
     formats |-> device.formats,
     presentModes |-> device.presentModes]

\* swapChainAdequate without the two emptiness tests
swapChainAdequate_Unchecked(device) == checkDeviceExtensionSupport(device)

\* the local swapChainAdequate of isDeviceSuitable
swapChainAdequate(device) ==
    IF checkDeviceExtensionSupport(device)
    THEN LET swapChainSupport == querySwapChainSupport(device)
         IN  swapChainSupport.formats # <<>> /\ swapChainSupport.presentModes # <<>>
    ELSE FALSE

isDeviceSuitable(device) ==
    LET indices == findQueueFamilies(device)
        extensionsSupported == checkDeviceExtensionSupport(device)
    IN  /\ indices.graphicsFamily # nullopt
        /\ indices.presentFamily # nullopt
        /\ extensionsSupported
        /\ swapChainAdequate(device)

\* a selection loop that stops at the first suitable device
RECURSIVE SelectDevice_FirstWins(_, _, _)
SelectDevice_FirstWins(devs, i, chosen) ==
    IF i > Len(devs)
    THEN chosen
    ELSE SelectDevice_FirstWins(devs, i + 1,
             IF isDeviceSuitable(devs[i]) /\ chosen = VK_NULL_HANDLE THEN i ELSE chosen)

\* the for loop of pickPhysicalDevice: the handle of devs[i] is i
RECURSIVE SelectDevice(_, _, _)
SelectDevice(devs, i, chosen) ==
    IF i > Len(devs)
    THEN chosen
    ELSE SelectDevice(devs, i + 1, IF isDeviceSuitable(devs[i]) THEN i ELSE chosen)

(***************************************************************************)
(* The application thread: main, run, initWindow and initVulkan.  pc names *)
(* the call about to be made.  A throw unwinds to the catch block of main. *)
(***************************************************************************)
VkResult == {"VK_SUCCESS", "VK_ERROR"}

Throw(msg) == pc' = "catch" /\ what' = msg /\ UNCHANGED exitCode

Goto(label) == pc' = label /\ UNCHANGED <<what, exitCode>>

\* an object of the run: image views and framebuffers carry their index
Obj(kind) == [kind |-> kind, index |-> 0]

ObjAt(kind, i) == [kind |-> kind, index |-> i]

Create(objects) == created' = created \o objects

Kinds(objects) == {objects[i].kind : i \in 1..Len(objects)}

initWindow ==
    /\ pc = "initWindow"
    /\ Create(<<Obj("window")>>)
    /\ Goto("checkGlfwRequiredExtensionsAvailable")
    /\ UNCHANGED <<envVars, infoVars, destroyed, handleVars, chainVars, loopVars, gpuVars>>

\* the inner loop of checkGlfwRequiredExtensionsAvailable: the entries of
\* vulkanExtensions from position j on that strcmp finds equal to name
RECURSIVE MatchesOf(_, _, _)
MatchesOf(name, vulkanExtensions, j) ==
    IF j > Len(vulkanExtensions)
    THEN 0
    ELSE (IF name = vulkanExtensions[j] THEN 1 ELSE 0)
            + MatchesOf(name, vulkanExtensions, j + 1)

\* the outer loop: matchingExtensions after the names from position i on
RECURSIVE matchingExtensions(_, _, _)
matchingExtensions(required, vulkanExtensions, i) ==
    IF i > Len(required)
    THEN 0
    ELSE MatchesOf(required[i], vulkanExtensions, 1)
            + matchingExtensions(required, vulkanExtensions, i + 1)

\* the value checkGlfwRequiredExtensionsAvailable returns
GlfwRequiredExtensionsAvailable(required, vulkanExtensions) ==
    matchingExtensions(required, vulkanExtensions, 1) = Len(required)

\* the two print calls and the check; initVulkan drops the check's result
checkGlfwRequiredExtensionsAvailable ==
    /\ pc = "checkGlfwRequiredExtensionsAvailable"
    /\ extensionsAvailable' =
          <<GlfwRequiredExtensionsAvailable(glfwExtensions, supportedExtensions)>>
    /\ Goto("createInstance")
    /\ UNCHANGED <<envVars, created, destroyed, handleVars, chainVars, queueCreateInfos,
                   swapChainCreateInfo, loopVars, gpuVars>>

\* a layer check that finds every layer
checkValidationLayerSupport_Unchecked == TRUE

checkValidationLayerSupport ==
    \A i \in 1..Len(validationLayers) :
       \E j \in 1..Len(availableLayers) : validationLayers[i] = availableLayers[j]

listRequiredExtensions(debug) ==
    glfwExtensions \o (IF debug THEN <<VK_EXT_DEBUG_UTILS_EXTENSION_NAME>> ELSE <<>>)

\* the layers createInstance enables
enabledLayers == IF enableValidationLayers THEN validationLayers ELSE <<>>

\* the statuses vkCreateInstance may return: it verifies the requested layers,
\* then the requested extensions against those of the implementation and of
\* the enabled layers; past that it may still fail for a reason of its own
InstanceResults(extensions, layers) ==
    IF ~(Range(layers) \subseteq Range(availableLayers))
    THEN {"VK_ERROR_LAYER_NOT_PRESENT"}
    ELSE IF ~(Range(extensions) \subseteq
                 Range(supportedExtensions)
                    \cup (IF layers # <<>> THEN Range(layerExtensions) ELSE {}))
    THEN {"VK_ERROR_EXTENSION_NOT_PRESENT"}
    ELSE {"VK_SUCCESS", "VK_ERROR_INCOMPATIBLE_DRIVER"}

createInstance ==
    /\ pc = "createInstance"
    /\ \E result \in InstanceResults(listRequiredExtensions(enableValidationLayers),
                                      enabledLayers) :
          IF enableValidationLayers /\ ~checkValidationLayerSupport
          THEN /\ Throw("Validation layers required but not available on this system")
               /\ UNCHANGED created
          ELSE IF result # "VK_SUCCESS"
          THEN Throw("Failed to create instance") /\ UNCHANGED created
          ELSE Create(<<Obj("instance")>>) /\ Goto("setupDebugMessenger")
    /\ UNCHANGED <<envVars, infoVars, destroyed, handleVars, chainVars, loopVars, gpuVars>>

setupDebugMessenger ==
    /\ pc = "setupDebugMessenger"
    /\ \E result \in VkResult \cup {"VK_ERROR_EXTENSION_NOT_PRESENT"} :
          IF ~enableValidationLayers
          THEN Goto("createSurface") /\ UNCHANGED created
          ELSE IF result # "VK_SUCCESS"
          THEN Throw("Failed to setup debug messenger") /\ UNCHANGED created
          ELSE Create(<<Obj("debugMessenger")>>) /\ Goto("createSurface")
    /\ UNCHANGED <<envVars, infoVars, destroyed, handleVars, chainVars, loopVars, gpuVars>>

createSurface ==
    /\ pc = "createSurface"
    /\ \E result \in VkResult :
          IF result # "VK_SUCCESS"
          THEN Throw("Failed to create window surface") /\ UNCHANGED created
          ELSE Create(<<Obj("surface")>>) /\ Goto("pickPhysicalDevice")
    /\ UNCHANGED <<envVars, infoVars, destroyed, handleVars, chainVars, loopVars, gpuVars>>

\* a selection that goes on to device creation with no device selected
PickOutcome_NoThrow(deviceCount, selected) == Goto("createLogicalDevice")

\* the two throws of pickPhysicalDevice
PickOutcome(deviceCount, selected) ==
    IF deviceCount = 0
    THEN Throw("Failed to find Vulkan GPUs")
    ELSE IF selected = VK_NULL_HANDLE
    THEN Throw("Failed to select a suitable GPU")
    ELSE Goto("createLogicalDevice")

pickPhysicalDevice ==
    /\ pc = "pickPhysicalDevice"
    /\ LET deviceCount == Len(devices)
           selected == IF deviceCount = 0
                       THEN physicalDevice
                       ELSE SelectDevice(devices, 1, physicalDevice)
       IN  /\ physicalDevice' = selected
           /\ PickOutcome(deviceCount, selected)
    /\ UNCHANGED <<envVars, infoVars, created, destroyed, graphicsQueue, presentQueue,
                   chainVars, loopVars, gpuVars>>


\* the device behind a physical device handle
DeviceOf(handle) ==
    IF handle \in 1..Len(devices)
    THEN devices[handle]
    ELSE [families |-> <<>>, extensions |-> <<>>, formats |-> <<>>,
          presentModes |-> <<>>, caps |-> Caps]

\* the loop over std::set<uint32_t>: one request per element, ascending
RECURSIVE QueueCreateInfosOf(_)
QueueCreateInfosOf(uniqueQueueFamilies) ==
    IF uniqueQueueFamilies = {}
    THEN <<>>
    ELSE LET queueFamily == Min(uniqueQueueFamilies)
         IN  <<[queueFamilyIndex |-> queueFamily, queueCount |-> 1]>>
                \o QueueCreateInfosOf(uniqueQueueFamilies \ {queueFamily})

\* one request per role, whether or not the two families are the same
BuildQueueCreateInfos_PerRole(indices) ==
    <<[queueFamilyIndex |-> indices.graphicsFamily, queueCount |-> 1],
      [queueFamilyIndex |-> indices.presentFamily, queueCount |-> 1]>>

\* queueCreateInfos as createLogicalDevice builds it
BuildQueueCreateInfos(indices) ==
    QueueCreateInfosOf({indices.graphicsFamily, indices.presentFamily})

createLogicalDevice ==
    /\ pc = "createLogicalDevice"
    /\ LET indices == findQueueFamilies(DeviceOf(physicalDevice))
       IN  \E result \in VkResult :
              IF ~isComplete(indices)
              THEN /\ Throw("bad optional access")
                   /\ UNCHANGED <<created, graphicsQueue, presentQueue, queueCreateInfos>>
              ELSE /\ queueCreateInfos' = BuildQueueCreateInfos(indices)
                   /\ IF result # "VK_SUCCESS"
                      THEN /\ Throw("Failed to create logical device")
                           /\ UNCHANGED <<created, graphicsQueue, presentQueue>>
                      ELSE /\ Create(<<Obj("device")>>)
                           /\ graphicsQueue' = indices.graphicsFamily
                           /\ presentQueue' = indices.presentFamily
                           /\ Goto("createSwapChain")
    /\ UNCHANGED <<envVars, extensionsAvailable, swapChainCreateInfo, destroyed,
                   physicalDevice, chainVars, loopVars, gpuVars>>

\* the loop of chooseSwapSurfaceFormat from position i on, then element 0
RECURSIVE ScanFormats(_, _)
ScanFormats(availableFormats, i) ==
    IF i > Len(availableFormats)
    THEN availableFormats[1]
    ELSE IF /\ availableFormats[i].format = "VK_FORMAT_B8G8R8A8_UNORM"
            /\ availableFormats[i].colorSpace = "VK_COLORSPACE_SRGB_NONLINEAR_KHR"
    THEN availableFormats[i]
    ELSE ScanFormats(availableFormats, i + 1)

\* a choice that takes element 0 whatever the list holds
chooseSwapSurfaceFormat_First(availableFormats) == availableFormats[1]

chooseSwapSurfaceFormat(availableFormats) == ScanFormats(availableFormats, 1)

\* the loop of chooseSwapPresentMode from position i on, then FIFO
RECURSIVE ScanPresentModes(_, _)
ScanPresentModes(availablePresentModes, i) ==
    IF i > Len(availablePresentModes)
    THEN "VK_PRESENT_MODE_FIFO_KHR"
    ELSE IF availablePresentModes[i] = "VK_PRESENT_MODE_MAILBOX_KHR"
    THEN availablePresentModes[i]
    ELSE ScanPresentModes(availablePresentModes, i + 1)

\* a choice that falls back to the first mode of the list
chooseSwapPresentMode_FirstListed(availablePresentModes) ==
    IF \E i \in 1..Len(availablePresentModes) :
          availablePresentModes[i] = "VK_PRESENT_MODE_MAILBOX_KHR"
    THEN "VK_PRESENT_MODE_MAILBOX_KHR"
    ELSE availablePresentModes[1]

chooseSwapPresentMode(availablePresentModes) == ScanPresentModes(availablePresentModes, 1)

\* std::max and std::min on uint32_t
StdMax(a, b) == IF a < b THEN b ELSE a

StdMin(a, b) == IF b < a THEN b ELSE a

\* an extent choice that does not clamp the window size
chooseSwapExtent_Unclamped(capabilities) ==
    IF capabilities.currentExtent.width # UINT32_MAX
    THEN capabilities.currentExtent
    ELSE Extent(WIDTH, HEIGHT)

chooseSwapExtent(capabilities) ==
    IF capabilities.currentExtent.width # UINT32_MAX
    THEN capabilities.currentExtent
    ELSE Extent(StdMax(capabilities.minImageExtent.width,
                       StdMin(capabilities.maxImageExtent.width, WIDTH)),
                StdMax(capabilities.minImageExtent.height,
                       StdMin(capabilities.maxImageExtent.height, HEIGHT)))

\* an image count that is not capped
requestedImageCount_Uncapped(capabilities) == capabilities.minImageCount + 1

\* the image count createSwapChain asks for
requestedImageCount(capabilities) ==
    IF capabilities.maxImageCount > 0
       /\ capabilities.minImageCount + 1 > capabilities.maxImageCount
    THEN capabilities.maxImageCount
    ELSE capabilities.minImageCount + 1

\* the sharing mode and family list createSwapChain asks for
SharingOf(indices) ==
    IF indices.graphicsFamily # indices.presentFamily
    THEN [imageSharingMode |-> "VK_SHARING_MODE_CONCURRENT",
          queueFamilyIndices |-> <<indices.graphicsFamily, indices.presentFamily>>]
    ELSE [imageSharingMode |-> "VK_SHARING_MODE_EXCLUSIVE", queueFamilyIndices |-> <<>>]

createSwapChain ==
    /\ pc = "createSwapChain"
    /\ LET swapChainSupport == querySwapChainSupport(DeviceOf(physicalDevice))
           surfaceFormat == chooseSwapSurfaceFormat(swapChainSupport.formats)
           presentMode == chooseSwapPresentMode(swapChainSupport.presentModes)
           extent == chooseSwapExtent(swapChainSupport.capabilities)
           imageCount == requestedImageCount(swapChainSupport.capabilities)
           indices == findQueueFamilies(DeviceOf(physicalDevice))
       IN  /\ swapChainCreateInfo' =
                 <<[minImageCount |-> imageCount,
                    imageFormat |-> surfaceFormat.format,
                    imageColorSpace |-> surfaceFormat.colorSpace,
                    imageExtent |-> extent,
                    presentMode |-> presentMode,
                    sharing |-> SharingOf(indices)]>>
           /\ \E result \in VkResult,
                 actualCount \in imageCount..StdMax(imageCount, MaxImages) :
                 IF result # "VK_SUCCESS"
                 THEN /\ Throw("Could not create swap chain")
                      /\ UNCHANGED <<created, swapChainImages, imageState>>
                 ELSE /\ Create(<<Obj("swapChain")>>)
                      /\ swapChainImages' = actualCount
                      /\ imageState' = [i \in 0..(actualCount - 1) |-> "free"]
                      /\ Goto("createImageViews")
    /\ UNCHANGED <<envVars, extensionsAvailable, queueCreateInfos, destroyed, handleVars,
                   swapChainImageViews,
                   swapChainFramebuffers, commandBuffers, loopVars,
                   imageAvailableSemaphore, renderFinishedSemaphore, pendingAcquire,
                   graphicsQueueWork, presentQueueWork, acquired, rendered, presented>>

\* objects kind[0], ..., kind[n - 1] in creation order
ObjectsUpTo(kind, n) == [i \in 1..n |-> ObjAt(kind, i - 1)]

createImageViews ==
    /\ pc = "createImageViews"
    /\ swapChainImageViews' = swapChainImages
    /\ \E failAt \in 0..swapChainImages :
          /\ Create(ObjectsUpTo("imageView", failAt))
          /\ IF failAt < swapChainImages
             THEN Throw("Failed to create image views")
             ELSE Goto("createRenderPass")
    /\ UNCHANGED <<envVars, infoVars, destroyed, handleVars, swapChainImages,
                   swapChainFramebuffers, commandBuffers, loopVars, gpuVars>>

\* a createRenderPass that does not look at the status of vkCreateRenderPass
createRenderPass_StatusIgnored ==
    /\ pc = "createRenderPass"
    /\ \E result \in VkResult :
          IF result # "VK_SUCCESS"
          THEN Goto("createGraphicsPipeline") /\ UNCHANGED created
          ELSE Create(<<Obj("renderPass")>>) /\ Goto("createGraphicsPipeline")
    /\ UNCHANGED <<envVars, infoVars, destroyed, handleVars, chainVars, loopVars, gpuVars>>

createRenderPass ==
    /\ pc = "createRenderPass"
    /\ \E result \in VkResult :
          IF result # "VK_SUCCESS"
          THEN Throw("Failed to create renderpass") /\ UNCHANGED created
          ELSE Create(<<Obj("renderPass")>>) /\ Goto("createGraphicsPipeline")
    /\ UNCHANGED <<envVars, infoVars, destroyed, handleVars, chainVars, loopVars, gpuVars>>

\* readFile: if (!file.is_open()) throw; the size of the file is not looked at
readFileThrows(file) == file = "missing"

createGraphicsPipeline ==
    /\ pc = "createGraphicsPipeline"
    /\ \E vertModule \in VkResult, fragModule \in VkResult,
          layout \in VkResult, pipeline \in VkResult :
          IF readFileThrows(shaderFiles.vert) \/ readFileThrows(shaderFiles.frag)
          THEN Throw("Failed to open file") /\ UNCHANGED <<created, destroyed>>
          ELSE IF vertModule # "VK_SUCCESS"
          THEN Throw("Failed to create shader module") /\ UNCHANGED <<created, destroyed>>
          ELSE IF fragModule # "VK_SUCCESS"
          THEN /\ Create(<<Obj("vertShaderModule")>>)
               /\ Throw("Failed to create shader module")
               /\ UNCHANGED destroyed
          ELSE IF layout # "VK_SUCCESS"
          THEN /\ Create(<<Obj("vertShaderModule"), Obj("fragShaderModule")>>)
               /\ Throw("Failed to create pipeline layout")
               /\ UNCHANGED destroyed
          ELSE IF pipeline # "VK_SUCCESS"
          THEN /\ Create(<<Obj("vertShaderModule"), Obj("fragShaderModule"),
                           Obj("pipelineLayout")>>)
               /\ Throw("Failed to create graphics pipeline")
               /\ UNCHANGED destroyed
          ELSE /\ Create(<<Obj("vertShaderModule"), Obj("fragShaderModule"),
                           Obj("pipelineLayout"), Obj("graphicsPipeline")>>)
               /\ destroyed' = destroyed \o
                      <<Obj("vertShaderModule"), Obj("fragShaderModule")>>
               /\ Goto("createFramebuffers")
    /\ UNCHANGED <<envVars, infoVars, handleVars, chainVars, loopVars, gpuVars>>

createFramebuffers ==
    /\ pc = "createFramebuffers"
    /\ swapChainFramebuffers' = swapChainImageViews
    /\ \E failAt \in 0..swapChainImageViews :
          /\ Create(ObjectsUpTo("framebuffer", failAt))
          /\ IF failAt < swapChainImageViews
             THEN Throw("Failed to create framebuffer")
             ELSE Goto("createCommandPool")
    /\ UNCHANGED <<envVars, infoVars, destroyed, handleVars, swapChainImages,
                   swapChainImageViews, commandBuffers, loopVars, gpuVars>>

createCommandPool ==
    /\ pc = "createCommandPool"
    /\ LET queueFamilyIndices == findQueueFamilies(DeviceOf(physicalDevice))
       IN  \E result \in VkResult :
              IF queueFamilyIndices.graphicsFamily = nullopt
              THEN Throw("bad optional access") /\ UNCHANGED created
              ELSE IF result # "VK_SUCCESS"
              THEN Throw("Failed to create command pool") /\ UNCHANGED created
              ELSE Create(<<Obj("commandPool")>>) /\ Goto("createCommandBuffers")
    /\ UNCHANGED <<envVars, infoVars, destroyed, handleVars, chainVars, loopVars, gpuVars>>

\* a recording whose draw has the vertex and the instance count exchanged
Recording_CountsExchanged ==
    <<"vkBeginCommandBuffer", "vkCmdBeginRenderPass", "vkCmdBindPipeline",
      "vkCmdDraw(1, 3, 0, 0)", "vkCmdEndRenderPass", "vkEndCommandBuffer">>

\* the commands recorded into every command buffer
Recording ==
    <<"vkBeginCommandBuffer", "vkCmdBeginRenderPass", "vkCmdBindPipeline",
      "vkCmdDraw(3, 1, 0, 0)", "vkCmdEndRenderPass", "vkEndCommandBuffer">>

\* a command buffer list of a single buffer, whatever the number of framebuffers
RecordedUpTo_Single(n, failAt) ==
    [i \in 1..StdMin(n, 1) |-> IF i <= failAt THEN Recording ELSE <<>>]

\* commandBuffers after the recording loop stopped at buffer failAt
RecordedUpTo(n, failAt) == [i \in 1..n |-> IF i <= failAt THEN Recording ELSE <<>>]

createCommandBuffers ==
    /\ pc = "createCommandBuffers"
    /\ LET n == swapChainFramebuffers
       IN  \E allocate \in VkResult, failAt \in 0..n :
              IF allocate # "VK_SUCCESS"
              THEN /\ commandBuffers' = RecordedUpTo(n, 0)
                   /\ Throw("Failed to allocate command buffers")
              ELSE /\ commandBuffers' = RecordedUpTo(n, failAt)
                   /\ IF failAt < n
                      THEN Throw("failed to record a command buffer")
                      ELSE Goto("createSemaphores")
    /\ UNCHANGED <<envVars, infoVars, created, destroyed, handleVars, swapChainImages,
                   swapChainImageViews, swapChainFramebuffers, loopVars, gpuVars>>

createSemaphores ==
    /\ pc = "createSemaphores"
    /\ \E first \in VkResult, second \in VkResult :
          IF first # "VK_SUCCESS"
          THEN Throw("Failed to create semaphores") /\ UNCHANGED created
          ELSE IF second # "VK_SUCCESS"
          THEN /\ Create(<<Obj("imageAvailableSemaphore")>>)
               /\ Throw("Failed to create semaphores")
          ELSE /\ Create(<<Obj("imageAvailableSemaphore"),
                           Obj("renderFinishedSemaphore")>>)
               /\ Goto("mainLoop")
    /\ UNCHANGED <<envVars, infoVars, destroyed, handleVars, chainVars, loopVars, gpuVars>>

(***************************************************************************)
(* mainLoop and drawFrame.  drawFrame makes three calls into the runtime;  *)
(* the runtime may progress between them, so each call is a step.  calls   *)
(* is the trace of the calls that returned.                                *)
(***************************************************************************)
\* a loop that does not test the close flag
mainLoop_NoTest ==
    /\ pc = "mainLoop"
    /\ frame < MaxFrames
    /\ Goto("glfwPollEvents")
    /\ UNCHANGED <<envVars, objVars, loopVars, gpuVars>>

mainLoop ==
    /\ pc = "mainLoop"
    /\ IF windowShouldClose
       THEN Goto("cleanup")
       ELSE frame < MaxFrames /\ Goto("glfwPollEvents")
    /\ UNCHANGED <<envVars, objVars, loopVars, gpuVars>>

\* the event pump: a close event sets the window's close flag
glfwPollEvents ==
    /\ pc = "glfwPollEvents"
    /\ \E closeEvent \in BOOLEAN : windowShouldClose' = (windowShouldClose \/ closeEvent)
    /\ Goto("vkAcquireNextImageKHR")
    /\ UNCHANGED <<envVars, objVars, frame, imageIndex, calls, gpuVars>>

AcquireResult == {"VK_SUCCESS", "VK_SUBOPTIMAL_KHR", "VK_ERROR_OUT_OF_DATE_KHR"}

\* the statuses with which vkAcquireNextImageKHR hands out an image
AcquiresImage(result) == result \in {"VK_SUCCESS", "VK_SUBOPTIMAL_KHR"}

Call(op, f, result, index) == [op |-> op, frame |-> f, result |-> result, index |-> index]

\* drawFrame, lines 953-954.  The status is not looked at.  With an image,
\* imageIndex is written and the signal of imageAvailableSemaphore is pending;
\* without, imageIndex keeps whatever the stack held.
vkAcquireNextImageKHR ==
    /\ pc = "vkAcquireNextImageKHR"
    /\ frame' = frame + 1
    /\ \E result \in AcquireResult :
          /\ IF AcquiresImage(result)
             THEN \E i \in DOMAIN imageState :
                     /\ imageState[i] = "free"
                     /\ imageIndex' = i
                     /\ imageState' = [imageState EXCEPT ![i] = "acquired"]
                     /\ pendingAcquire' = pendingAcquire \cup {frame + 1}
             ELSE /\ imageIndex' \in 0..swapChainImages
                  /\ UNCHANGED <<imageState, pendingAcquire>>
          /\ calls' = Append(calls, Call("vkAcquireNextImageKHR", frame + 1, result, imageIndex'))
    /\ Goto("vkQueueSubmit")
    /\ UNCHANGED <<envVars, objVars, windowShouldClose, imageAvailableSemaphore,
                   renderFinishedSemaphore, graphicsQueueWork, presentQueueWork,
                   acquired, rendered, presented>>

\* a submission that always takes the first command buffer
SubmittedIndex_First == imageIndex * 0

\* submitInfo.pCommandBuffers = &commandBuffers[imageIndex]
SubmittedIndex == imageIndex

\* a submit whose status is not looked at
SubmitThrows_Never(result) == FALSE

\* if (vkQueueSubmit(...) != VK_SUCCESS) throw
SubmitThrows(result) == result # "VK_SUCCESS"

\* drawFrame, lines 957-973.  An index outside commandBuffers is undefined
\* behaviour: the call may crash the process, fail or go through.
vkQueueSubmit ==
    /\ pc = "vkQueueSubmit"
    /\ \E result \in {"VK_SUCCESS", "VK_ERROR_DEVICE_LOST", "crash"} :
          /\ result = "crash" => SubmittedIndex >= Len(commandBuffers)
          /\ IF result = "crash"
             THEN /\ pc' = "crashed"
                  /\ UNCHANGED <<what, exitCode, calls, graphicsQueueWork>>
             ELSE /\ calls' = Append(calls, Call("vkQueueSubmit", frame, result, SubmittedIndex))
                  /\ graphicsQueueWork' =
                        IF result = "VK_SUCCESS"
                        THEN Append(graphicsQueueWork,
                                    [frame |-> frame, index |-> SubmittedIndex])
                        ELSE graphicsQueueWork
                  /\ IF SubmitThrows(result)
                     THEN Throw("Failed to submit draw command buffer")
                     ELSE Goto("vkQueuePresentKHR")
    /\ UNCHANGED <<envVars, objVars, windowShouldClose, frame, imageIndex, imageState,
                   imageAvailableSemaphore, renderFinishedSemaphore, pendingAcquire,
                   presentQueueWork, acquired, rendered, presented>>

\* drawFrame, lines 976-988.  The status of the present call is not looked at.
vkQueuePresentKHR ==
    /\ pc = "vkQueuePresentKHR"
    /\ calls' = Append(calls, Call("vkQueuePresentKHR", frame, "VK_SUCCESS", imageIndex))
    /\ presentQueueWork' = Append(presentQueueWork, [frame |-> frame, index |-> imageIndex])
    /\ imageState' = IF imageIndex \in DOMAIN imageState
                     THEN [imageState EXCEPT ![imageIndex] = "queued"]
                     ELSE imageState
    /\ Goto("mainLoop")
    /\ UNCHANGED <<envVars, objVars, windowShouldClose, frame, imageIndex,
                   imageAvailableSemaphore, renderFinishedSemaphore, pendingAcquire,
                   graphicsQueueWork, acquired, rendered, presented>>

(***************************************************************************)
(* The device and the presentation engine.  They run while the process     *)
(* does, between any two steps of the application thread.  A binary        *)
(* semaphore is a flag: a signal sets it, a wait takes it.                 *)
(***************************************************************************)
DeviceRuns ==
    pc \in {"mainLoop", "glfwPollEvents", "vkAcquireNextImageKHR", "vkQueueSubmit",
            "vkQueuePresentKHR", "cleanup"}

\* the presentation engine releases the image of an acquire and signals the
\* semaphore given to that acquire (line 954)
signalImageAvailable ==
    /\ DeviceRuns
    /\ \E f \in pendingAcquire :
          /\ pendingAcquire' = pendingAcquire \ {f}
          /\ acquired' = acquired \cup {f}
    /\ imageAvailableSemaphore' = TRUE
    /\ UNCHANGED <<envVars, mainVars, objVars, loopVars, imageState,
                   renderFinishedSemaphore, graphicsQueueWork, presentQueueWork,
                   rendered, presented>>

\* the graphics queue runs its oldest batch: the wait on imageAvailableSemaphore
\* at the color-attachment-output stage, the color write of the command buffer,
\* the signal of renderFinishedSemaphore (lines 960-969)
executeCommandBuffer ==
    /\ DeviceRuns
    /\ graphicsQueueWork # <<>>
    /\ imageAvailableSemaphore
    /\ imageAvailableSemaphore' = FALSE
    /\ rendered' = rendered \cup {Head(graphicsQueueWork).frame}
    /\ renderFinishedSemaphore' = TRUE
    /\ graphicsQueueWork' = Tail(graphicsQueueWork)
    /\ UNCHANGED <<envVars, mainVars, objVars, loopVars, imageState, pendingAcquire,
                   presentQueueWork, acquired, presented>>

\* the present queue runs its oldest request: the wait on renderFinishedSemaphore,
\* the presentation of the image (lines 979-985)
presentImage ==
    /\ DeviceRuns
    /\ presentQueueWork # <<>>
    /\ renderFinishedSemaphore
    /\ renderFinishedSemaphore' = FALSE
    /\ presented' = presented \cup {Head(presentQueueWork).frame}
    /\ imageState' = IF Head(presentQueueWork).index \in DOMAIN imageState
                     THEN [imageState EXCEPT ![Head(presentQueueWork).index] = "free"]
                     ELSE imageState
    /\ presentQueueWork' = Tail(presentQueueWork)
    /\ UNCHANGED <<envVars, mainVars, objVars, loopVars, imageAvailableSemaphore,
                   pendingAcquire, graphicsQueueWork, acquired, rendered>>

(***************************************************************************)
(* cleanup and the two ways out of main.                                   *)
(***************************************************************************)
\* a teardown that destroys the messenger in every build
DestroyDebugMessenger_Always == <<Obj("debugMessenger")>>

\* if (enableValidationLayers) DestroyDebugUtilsMessengerEXT(...)
DestroyDebugMessenger ==
    IF enableValidationLayers THEN <<Obj("debugMessenger")>> ELSE <<>>

\* a teardown that destroys the objects in the order of their creation
CleanupSequence_CreationOrder ==
    <<Obj("window"), Obj("instance")>>
       \o DestroyDebugMessenger
       \o <<Obj("surface"), Obj("device"), Obj("swapChain")>>
       \o ObjectsUpTo("imageView", swapChainImageViews)
       \o <<Obj("renderPass"), Obj("pipelineLayout"), Obj("graphicsPipeline")>>
       \o ObjectsUpTo("framebuffer", swapChainFramebuffers)
       \o <<Obj("commandPool"), Obj("imageAvailableSemaphore"),
            Obj("renderFinishedSemaphore")>>

\* a teardown that destroys the device and the instance first
CleanupSequence_ParentsFirst ==
    <<Obj("device"), Obj("instance"), Obj("swapChain")>>
       \o ObjectsUpTo("imageView", swapChainImageViews)
       \o <<Obj("renderFinishedSemaphore"), Obj("imageAvailableSemaphore"),
            Obj("commandPool")>>
       \o ObjectsUpTo("framebuffer", swapChainFramebuffers)
       \o <<Obj("graphicsPipeline"), Obj("pipelineLayout"), Obj("renderPass")>>
       \o DestroyDebugMessenger
       \o <<Obj("surface"), Obj("window")>>

\* the destroy calls of cleanup, in the order it makes them
CleanupSequence ==
    <<Obj("renderFinishedSemaphore"), Obj("imageAvailableSemaphore"),
      Obj("commandPool")>>
       \o ObjectsUpTo("framebuffer", swapChainFramebuffers)
       \o <<Obj("graphicsPipeline"), Obj("pipelineLayout"), Obj("renderPass")>>
       \o ObjectsUpTo("imageView", swapChainImageViews)
       \o <<Obj("swapChain"), Obj("device")>>
       \o DestroyDebugMessenger
       \o <<Obj("surface"), Obj("instance"), Obj("window")>>

cleanup ==
    /\ pc = "cleanup"
    /\ destroyed' = destroyed \o CleanupSequence
    /\ Goto("return")
    /\ UNCHANGED <<envVars, infoVars, created, handleVars, chainVars, loopVars, gpuVars>>

\* main has not returned
notExited == -1

mainReturn ==
    /\ pc = "return"
    /\ pc' = "exit"
    /\ exitCode' = EXIT_SUCCESS
    /\ UNCHANGED <<envVars, what, objVars, loopVars, gpuVars>>

\* a catch block that returns EXIT_SUCCESS
mainCatch_ReturnsSuccess ==
    /\ pc = "catch"
    /\ pc' = "exit"
    /\ exitCode' = EXIT_SUCCESS
    /\ UNCHANGED <<envVars, what, objVars, loopVars, gpuVars>>

\* a catch block that tears the objects down before it returns
mainCatch_CleansUp ==
    /\ pc = "catch"
    /\ pc' = "exit"
    /\ exitCode' = EXIT_FAILURE
    /\ destroyed' = destroyed \o CleanupSequence
    /\ UNCHANGED <<envVars, what, created, handleVars, chainVars, infoVars, loopVars, gpuVars>>

mainCatch ==
    /\ pc = "catch"
    /\ pc' = "exit"
    /\ exitCode' = EXIT_FAILURE
    /\ UNCHANGED <<envVars, what, objVars, loopVars, gpuVars>>

(***************************************************************************)
(* The run of the program, on the systems of RunDeviceTables.              *)
(***************************************************************************)
\* a system on which the instance stage goes through
GoodInstance ==
    [availableLayers |-> <<"VK_LAYER_KHRONOS_validation">>,
     supportedExtensions |-> <<"VK_KHR_surface", "VK_EXT_metal_surface", "VK_EXT_debug_utils">>,
     layerExtensions |-> <<>>,
     glfwExtensions |-> <<"VK_KHR_surface", "VK_EXT_metal_surface">>]

\* systems without the validation layer, without a windowing extension
RunBadInstances ==
    {[GoodInstance EXCEPT !.availableLayers = <<>>],
     [GoodInstance EXCEPT !.supportedExtensions = <<"VK_KHR_surface", "VK_EXT_debug_utils">>]}

\* the shader directories the whole run is followed on
RunShaderFiles == {ShaderFilesPresent, [ShaderFilesPresent EXCEPT !.frag = "missing"]}

\* the systems the whole run is followed on
RunSystems ==
    {[devices |-> d, instance |-> GoodInstance] : d \in RunDeviceTables}
        \cup {[devices |-> <<>>, instance |-> i] : i \in RunBadInstances}

InstanceIs(i) ==
    /\ availableLayers = i.availableLayers
    /\ supportedExtensions = i.supportedExtensions
    /\ layerExtensions = i.layerExtensions
    /\ glfwExtensions = i.glfwExtensions

InitProgram ==
    /\ enableValidationLayers \in BOOLEAN
    /\ extensionsAvailable = <<>>
    /\ queueCreateInfos = <<>>
    /\ swapChainCreateInfo = <<>>
    /\ pc = "initWindow"
    /\ what = ""
    /\ exitCode = notExited
    /\ created = <<>>
    /\ destroyed = <<>>
    /\ physicalDevice = VK_NULL_HANDLE
    /\ graphicsQueue = nullopt
    /\ presentQueue = nullopt
    /\ swapChainImages = 0
    /\ swapChainImageViews = 0
    /\ swapChainFramebuffers = 0
    /\ commandBuffers = <<>>
    /\ windowShouldClose = FALSE
    /\ frame = 0
    /\ imageIndex = 0
    /\ calls = <<>>
    /\ imageState = <<>>
    /\ imageAvailableSemaphore = FALSE
    /\ renderFinishedSemaphore = FALSE
    /\ pendingAcquire = {}
    /\ graphicsQueueWork = <<>>
    /\ presentQueueWork = <<>>
    /\ acquired = {}
    /\ rendered = {}
    /\ presented = {}

Init ==
    /\ \E system \in RunSystems : devices = system.devices /\ InstanceIs(system.instance)
    /\ shaderFiles \in RunShaderFiles
    /\ InitProgram

Next ==
    \/ initWindow
    \/ checkGlfwRequiredExtensionsAvailable
    \/ createInstance
    \/ setupDebugMessenger
    \/ createSurface
    \/ pickPhysicalDevice
    \/ createLogicalDevice
    \/ createSwapChain
    \/ createImageViews
    \/ createRenderPass
    \/ createGraphicsPipeline
    \/ createFramebuffers
    \/ createCommandPool
    \/ createCommandBuffers
    \/ createSemaphores
    \/ mainLoop
    \/ glfwPollEvents
    \/ vkAcquireNextImageKHR
    \/ vkQueueSubmit
    \/ vkQueuePresentKHR
    \/ signalImageAvailable
    \/ executeCommandBuffer
    \/ presentImage
    \/ cleanup
    \/ mainReturn
    \/ mainCatch

Spec == Init /\ [][Next]_vars

(***************************************************************************)
(* Device selection on its own: the program as it stands before            *)
(* pickPhysicalDevice, on every system of DeviceTables, up to the          *)
(* retrieval of the two queues.                                            *)
(***************************************************************************)
InitDevice ==
    /\ devices \in DeviceTables
    /\ InstanceIs(GoodInstance)
    /\ shaderFiles = ShaderFilesPresent
    /\ enableValidationLayers \in BOOLEAN
    /\ extensionsAvailable = <<TRUE>>
    /\ queueCreateInfos = <<>>
    /\ swapChainCreateInfo = <<>>
    /\ pc = "pickPhysicalDevice"
    /\ what = ""
    /\ exitCode = notExited
    /\ created = <<Obj("window"), Obj("instance")>>
                    \o (IF enableValidationLayers THEN <<Obj("debugMessenger")>> ELSE <<>>)
                    \o <<Obj("surface")>>
    /\ destroyed = <<>>
    /\ physicalDevice = VK_NULL_HANDLE
    /\ graphicsQueue = nullopt
    /\ presentQueue = nullopt
    /\ swapChainImages = 0
    /\ swapChainImageViews = 0
    /\ swapChainFramebuffers = 0
    /\ commandBuffers = <<>>
    /\ windowShouldClose = FALSE
    /\ frame = 0
    /\ imageIndex = 0
    /\ calls = <<>>
    /\ imageState = <<>>
    /\ imageAvailableSemaphore = FALSE
    /\ renderFinishedSemaphore = FALSE
    /\ pendingAcquire = {}
    /\ graphicsQueueWork = <<>>
    /\ presentQueueWork = <<>>
    /\ acquired = {}
    /\ rendered = {}
    /\ presented = {}

NextDevice == pickPhysicalDevice \/ createLogicalDevice \/ mainCatch

SpecDevice == InitDevice /\ [][NextDevice]_vars

(***************************************************************************)
(* The frame protocol.                                                     *)
(***************************************************************************)
LastCall == calls[Len(calls)]

\* the frames whose drawFrame has returned
CompletedFrames ==
    {calls[k].frame : k \in {j \in 1..Len(calls) : calls[j].op = "vkQueuePresentKHR"}}

\* the calls of frame f, in the order they were made
RECURSIVE CallsOf(_, _)
CallsOf(f, k) ==
    IF k > Len(calls)
    THEN <<>>
    ELSE (IF calls[k].frame = f THEN <<calls[k].op>> ELSE <<>>) \o CallsOf(f, k + 1)

\* C1: every drawFrame that completes made exactly one acquire, then one
\* submit, then one present; the submit took the command buffer at the index
\* the acquire left in imageIndex (the image handed out, when one was) and the
\* present named the same index; and the acquire of a frame comes only after
\* the present call of the frame before it has returned.
C1_FrameProtocol ==
    /\ \A f \in CompletedFrames :
          CallsOf(f, 1) = <<"vkAcquireNextImageKHR", "vkQueueSubmit", "vkQueuePresentKHR">>
    /\ \A k \in 1..Len(calls) :
          LET c == calls[k]
          IN  /\ c.op = "vkAcquireNextImageKHR" =>
                    IF k = 1
                    THEN c.frame = 1
                    ELSE /\ calls[k - 1].op = "vkQueuePresentKHR"
                         /\ calls[k - 1].frame = c.frame - 1
              /\ c.op = "vkQueueSubmit" =>
                    /\ k > 1
                    /\ calls[k - 1].op = "vkAcquireNextImageKHR"
                    /\ calls[k - 1].frame = c.frame
                    /\ calls[k - 1].index = c.index
              /\ c.op = "vkQueuePresentKHR" =>
                    /\ k > 2
                    /\ calls[k - 1].op = "vkQueueSubmit"
                    /\ calls[k - 1].result = "VK_SUCCESS"
                    /\ calls[k - 1].frame = c.frame
                    /\ calls[k - 1].index = c.index
                    /\ calls[k - 2].index = c.index
    /\ \A b \in Range(graphicsQueueWork) \cup Range(presentQueueWork) :
          \E k \in 1..Len(calls) :
             /\ calls[k].op = "vkAcquireNextImageKHR"
             /\ calls[k].frame = b.frame
             /\ calls[k].index = b.index
    /\ pc = "vkQueueSubmit" => LastCall.op = "vkAcquireNextImageKHR" /\ LastCall.frame = frame
    /\ pc = "vkQueuePresentKHR" => LastCall.op = "vkQueueSubmit" /\ LastCall.frame = frame
    /\ (pc \in {"mainLoop", "glfwPollEvents", "vkAcquireNextImageKHR", "cleanup", "return"}
            /\ frame > 0) =>
          LastCall.op = "vkQueuePresentKHR" /\ LastCall.frame = frame

\* two drawFrame calls have completed, the second on the image at index 1
C1_Witness ==
    /\ pc = "mainLoop"
    /\ CompletedFrames = {1, 2}
    /\ LastCall.index = 1
    /\ AcquiresImage(calls[4].result)

(***************************************************************************)
(* Device-side order and the two semaphores.                               *)
(***************************************************************************)
\* C2: for every frame, the color write of its command buffer comes after
\* the acquisition of its image has completed, and its presentation after its
\* rendering has finished.
C2_DeviceOrder ==
    /\ rendered \subseteq acquired
    /\ presented \subseteq rendered

\* signals of imageAvailableSemaphore that are pending or not yet waited for
OutstandingImageAvailable ==
    Cardinality(pendingAcquire) + (IF imageAvailableSemaphore THEN 1 ELSE 0)

\* signals of renderFinishedSemaphore that are pending or not yet waited for
OutstandingRenderFinished ==
    Len(graphicsQueueWork) + (IF renderFinishedSemaphore THEN 1 ELSE 0)

\* C3: each of the two semaphores has at most one outstanding signal: no
\* acquire or submit of a later drawFrame signals it again before the wait of
\* the earlier frame has taken the earlier signal.
C3_OneOutstandingSignal ==
    /\ OutstandingImageAvailable <= 1
    /\ OutstandingRenderFinished <= 1

\* C4: an acquire that returns a hard error is the last call of the run: no
\* submit and no present follow, and the thread is on the fatal path.
C4_AcquireErrorIsFatal ==
    \A k \in 1..Len(calls) :
       (calls[k].op = "vkAcquireNextImageKHR" /\ ~AcquiresImage(calls[k].result)) =>
          k = Len(calls) /\ pc \in {"catch", "exit"}

\* what cleanup destroys
CleanupKinds ==
    {"renderFinishedSemaphore", "imageAvailableSemaphore", "commandPool", "framebuffer",
     "graphicsPipeline", "pipelineLayout", "renderPass", "imageView", "swapChain",
     "device", "debugMessenger", "surface", "instance", "window"}

\* C5: a submit that returns a status other than VK_SUCCESS is the last call
\* of the run: no present and no later drawFrame follow, cleanup does not run
\* and main returns 1.
C5_SubmitFailureIsFatal ==
    \A k \in 1..Len(calls) :
       (calls[k].op = "vkQueueSubmit" /\ calls[k].result # "VK_SUCCESS") =>
          /\ k = Len(calls)
          /\ frame = calls[k].frame
          /\ pc \in {"catch", "exit"}
          /\ what = "Failed to submit draw command buffer"
          /\ Kinds(destroyed) \cap CleanupKinds = {}
          /\ pc = "exit" => exitCode = 1

\* the second drawFrame failed to submit and the process has exited
C5_Witness ==
    /\ pc = "exit"
    /\ calls # <<>>
    /\ LastCall.op = "vkQueueSubmit"
    /\ LastCall.result = "VK_ERROR_DEVICE_LOST"
    /\ LastCall.frame = 2

\* C6: once cleanup has destroyed the objects, no submission, no present
\* request and no semaphore signal of an earlier drawFrame is still pending.
C6_CleanupAfterIdle ==
    Obj("device") \in Range(destroyed) =>
       /\ graphicsQueueWork = <<>>
       /\ presentQueueWork = <<>>
       /\ pendingAcquire = {}

(***************************************************************************)
(* Device selection.                                                       *)
(***************************************************************************)
\* the family indices of a device that have the graphics bit / surface support
GraphicsFamilies(d) == {i - 1 : i \in {j \in 1..Len(d.families) : d.families[j].graphics}}

PresentFamilies(d) == {i - 1 : i \in {j \in 1..Len(d.families) : d.families[j].present}}

\* queue families and device extensions of d are in order
QueuesAndExtensionsValid(d) ==
    /\ GraphicsFamilies(d) # {}
    /\ PresentFamilies(d) # {}
    /\ Range(deviceExtensions) \subseteq Range(d.extensions)

\* the suitability predicate as the specification words it
Qualifies(d) ==
    /\ QueuesAndExtensionsValid(d)
    /\ Len(d.formats) > 0
    /\ Len(d.presentModes) > 0

\* the handles of the enumerated devices that qualify
Qualifying == {h \in 1..Len(devices) : Qualifies(devices[h])}

PickReturned == pc \in {"createLogicalDevice", "createSwapChain"}

PickThrew ==
    /\ pc \in {"catch", "exit"}
    /\ what \in {"Failed to find Vulkan GPUs", "Failed to select a suitable GPU"}

\* C7: pickPhysicalDevice accepts exactly the devices that qualify: it
\* returns with a device selected if and only if some enumerated device
\* qualifies, and the selected device is then the last qualifying one in
\* enumeration order.
C7_LastQualifyingSelected ==
    pc # "pickPhysicalDevice" =>
       IF Qualifying = {}
       THEN physicalDevice = VK_NULL_HANDLE /\ PickThrew
       ELSE physicalDevice = Max(Qualifying) /\ ~PickThrew

\* three devices or two qualify and the last of them, not the first, is selected
C7_Witness ==
    /\ PickReturned
    /\ Cardinality(Qualifying) >= 2
    /\ physicalDevice = Max(Qualifying)
    /\ physicalDevice # Min(Qualifying)

\* C8: the selected device never reports zero surface formats or zero
\* present modes.
C8_SelectedHasSwapChainSupport ==
    physicalDevice # VK_NULL_HANDLE =>
       /\ Len(devices[physicalDevice].formats) > 0
       /\ Len(devices[physicalDevice].presentModes) > 0

\* selection has run over a device whose queues and extensions are valid but
\* which reports no format or no present mode; it was not selected
C8_Witness ==
    /\ pc # "pickPhysicalDevice"
    /\ \E h \in 1..Len(devices) :
          /\ QueuesAndExtensionsValid(devices[h])
          /\ devices[h].formats = <<>> \/ devices[h].presentModes = <<>>
          /\ physicalDevice # h

\* the objects that exist when pickPhysicalDevice is called
BeforePickKinds == {"window", "instance", "debugMessenger", "surface"}

\* C9: on a system with no physical device, or with none that qualifies,
\* pickPhysicalDevice throws: the run never gets past it, no logical device
\* or later object is created, and main returns 1.
C9_NoDeviceIsFatal ==
    Qualifying = {} =>
       /\ pc \in {"initWindow", "checkGlfwRequiredExtensionsAvailable", "createInstance",
                  "setupDebugMessenger", "createSurface", "pickPhysicalDevice",
                  "catch", "exit"}
       /\ Kinds(created) \subseteq BeforePickKinds
       /\ physicalDevice = VK_NULL_HANDLE
       /\ (pc \in {"catch", "exit"} /\ Obj("surface") \in Range(created)) =>
             what = IF devices = <<>>
                    THEN "Failed to find Vulkan GPUs"
                    ELSE "Failed to select a suitable GPU"
       /\ pc = "exit" => exitCode = EXIT_FAILURE

\* devices were enumerated, none qualified, and the process has exited
C9_Witness ==
    /\ devices # <<>>
    /\ Qualifying = {}
    /\ pc = "exit"
    /\ what = "Failed to select a suitable GPU"
    /\ Kinds(created) = IF enableValidationLayers
                        THEN BeforePickKinds
                        ELSE BeforePickKinds \ {"debugMessenger"}

\* C10 as written: the queues are retrieved from the first graphics-capable
\* and the first presentation-capable family of the selected device.
C10_FirstFamilyRecorded ==
    pc = "createSwapChain" =>
       /\ graphicsQueue = Min(GraphicsFamilies(devices[physicalDevice]))
       /\ presentQueue = Min(PresentFamilies(devices[physicalDevice]))

\* C10 as amended: findQueueFamilies records, for each role, the last
\* family index of the table that satisfies the role's predicate; each role
\* is decided by its own predicate alone.
C10_LastFamilyRecorded ==
    pc = "createSwapChain" =>
       /\ graphicsQueue = Max(GraphicsFamilies(devices[physicalDevice]))
       /\ presentQueue = Max(PresentFamilies(devices[physicalDevice]))

\* several families match each role and the two roles got different indices
C10_Witness ==
    /\ pc = "createSwapChain"
    /\ Cardinality(GraphicsFamilies(devices[physicalDevice])) >= 2
    /\ Cardinality(PresentFamilies(devices[physicalDevice])) >= 2
    /\ graphicsQueue # presentQueue

(***************************************************************************)
(* The instance stage on its own: initWindow up to createSurface, on every *)
(* combination of layer list, instance extension list and GLFW list.       *)
(***************************************************************************)
InstanceExtensionNames == {"VK_KHR_surface", "VK_EXT_metal_surface", "VK_EXT_debug_utils"}

GlfwExtensionNames == {"VK_KHR_surface", "VK_EXT_metal_surface"}

InitInstance ==
    /\ devices = <<>>
    /\ availableLayers \in {<<>>, <<"VK_LAYER_LUNARG_api_dump">>,
                            <<"VK_LAYER_KHRONOS_validation">>,
                            <<"VK_LAYER_LUNARG_api_dump", "VK_LAYER_KHRONOS_validation">>}
    /\ supportedExtensions \in Lists(InstanceExtensionNames, MaxExtensions)
    /\ layerExtensions \in {<<>>, <<"VK_EXT_debug_utils">>}
    /\ glfwExtensions \in Lists(GlfwExtensionNames, MaxExtensions - 1)
    /\ shaderFiles = ShaderFilesPresent
    /\ InitProgram

NextInstance ==
    \/ initWindow
    \/ checkGlfwRequiredExtensionsAvailable
    \/ createInstance
    \/ setupDebugMessenger
    \/ createSurface
    \/ mainCatch

SpecInstance == InitInstance /\ [][NextInstance]_vars

\* the run has ended on the fatal path
Fatal == pc \in {"catch", "exit"}

\* the steps of the run up to and including createInstance
UpToCreateInstance ==
    {"initWindow", "checkGlfwRequiredExtensionsAvailable", "createInstance"}

\* some requested validation layer is not in the runtime's layer list
LayerMissing == ~(Range(validationLayers) \subseteq Range(availableLayers))

\* C11: with validation layers enabled and a requested layer missing from
\* the runtime's layer list, createInstance throws "Validation layers required
\* but not available on this system": the run ends on the fatal path with
\* exit code 1 and no instance, messenger, surface or later object exists.
C11_MissingLayerIsFatal ==
    (enableValidationLayers /\ LayerMissing) =>
       /\ pc \in UpToCreateInstance \cup {"catch", "exit"}
       /\ Kinds(created) \subseteq {"window"}
       /\ Fatal => what = "Validation layers required but not available on this system"
       /\ pc = "exit" => exitCode = EXIT_FAILURE

\* a debug build on a system that lists a layer, but not the requested one,
\* has exited
C11_Witness ==
    /\ enableValidationLayers
    /\ availableLayers = <<"VK_LAYER_LUNARG_api_dump">>
    /\ LayerMissing
    /\ pc = "exit"
    /\ Kinds(created) = {"window"}

(***************************************************************************)
(* Required instance extensions.                                           *)
(***************************************************************************)
\* some required instance extension is not in the list the program queries
\* from the runtime
RequiredExtensionMissing ==
    ~(Range(listRequiredExtensions(enableValidationLayers))
         \subseteq Range(supportedExtensions))

\* C12: with a required instance extension (one of GLFW's, or the debug
\* utils extension in a debug build) missing from the runtime's extension
\* list, the run ends on the fatal path and neither the instance nor any
\* later object is created.
C12_MissingExtensionIsFatal ==
    RequiredExtensionMissing =>
       /\ pc \in UpToCreateInstance \cup {"catch", "exit"}
       /\ Kinds(created) \subseteq {"window"}

\* C13: the value checkGlfwRequiredExtensionsAvailable returns is true if
\* and only if every name GLFW requires occurs in the runtime's extension
\* list, whatever the two lists hold (repeated names, unused entries).
C13_AvailableIffSubset ==
    extensionsAvailable # <<>> =>
       (extensionsAvailable[1] <=> Range(glfwExtensions) \subseteq Range(supportedExtensions))

(***************************************************************************)
(* Device extensions.                                                      *)
(***************************************************************************)
\* C14: for every enumerated device, checkDeviceExtensionSupport is true
\* exactly when every required device extension is among the advertised
\* ones: the answer depends on the set of advertised names only, not on their
\* order or on repetitions, and so is the same on every call.
C14_SupportIffSubset ==
    \A h \in 1..Len(devices) :
       /\ checkDeviceExtensionSupport(devices[h])
             <=> Range(deviceExtensions) \subseteq Range(devices[h].extensions)
       /\ (pc # "pickPhysicalDevice" /\ physicalDevice = h) =>
             Range(deviceExtensions) \subseteq Range(devices[h].extensions)

\* selection has accepted a device that advertises the required extension
\* after another one and more than once
C14_Witness ==
    /\ pc = "createLogicalDevice"
    /\ physicalDevice = 1
    /\ devices[1].extensions = <<"VK_KHR_maintenance1", "VK_KHR_swapchain", "VK_KHR_swapchain">>

(***************************************************************************)
(* Logical device: the queue requests.                                     *)
(***************************************************************************)
\* vkCreateDevice has been called
DeviceRequested ==
    \/ pc = "createSwapChain"
    \/ Fatal /\ what = "Failed to create logical device"

\* C15: the queue requests createLogicalDevice hands to vkCreateDevice are
\* exactly one, for the shared family with queue count 1, when the graphics
\* and the present role resolved to the same family index, and exactly two,
\* one per index and each with queue count 1, when they resolved to
\* different indices.
C15_OneRequestPerDistinctFamily ==
    DeviceRequested =>
       LET g == Max(GraphicsFamilies(devices[physicalDevice]))
           p == Max(PresentFamilies(devices[physicalDevice]))
       IN  /\ \A k \in 1..Len(queueCreateInfos) : queueCreateInfos[k].queueCount = 1
           /\ {queueCreateInfos[k].queueFamilyIndex : k \in 1..Len(queueCreateInfos)} = {g, p}
           /\ Len(queueCreateInfos) = IF g = p THEN 1 ELSE 2

\* on a device with several families both roles resolved to the same one and
\* a single request was made
C15_Witness ==
    /\ pc = "createSwapChain"
    /\ Len(devices[physicalDevice].families) > 1
    /\ graphicsQueue = presentQueue
    /\ queueCreateInfos = <<[queueFamilyIndex |-> graphicsQueue, queueCount |-> 1]>>

(***************************************************************************)
(* Swap chain negotiation on its own: the program as it stands before      *)
(* createSwapChain, on devices of every format list, present mode list and *)
(* surface capabilities.                                                   *)
(***************************************************************************)
SurfaceFormats ==
    {PreferredFormat,
     [format |-> "VK_FORMAT_B8G8R8A8_UNORM", colorSpace |-> "VK_COLOR_SPACE_DISPLAY_P3_NONLINEAR_EXT"],
     [format |-> "VK_FORMAT_R8G8B8A8_SRGB", colorSpace |-> "VK_COLORSPACE_SRGB_NONLINEAR_KHR"]}

PresentModes ==
    {"VK_PRESENT_MODE_IMMEDIATE_KHR", "VK_PRESENT_MODE_FIFO_KHR", "VK_PRESENT_MODE_MAILBOX_KHR"}

\* minImageCount and maxImageCount as a surface reports them: a maximum of 0
\* stands for no maximum, any other is at least the minimum
ImageCounts ==
    {c \in [minImageCount : 1..MaxImages, maxImageCount : 0..MaxImages] :
        c.maxImageCount = 0 \/ c.minImageCount <= c.maxImageCount}

CurrentExtents ==
    {Extent(UINT32_MAX, UINT32_MAX), Extent(640, 480), Extent(1024, UINT32_MAX)}

\* minImageExtent and maxImageExtent as a surface reports them
ExtentBounds ==
    {[minImageExtent |-> Extent(1, 1), maxImageExtent |-> Extent(4096, 4096)],
     [minImageExtent |-> Extent(1024, 768), maxImageExtent |-> Extent(4096, 4096)],
     [minImageExtent |-> Extent(1, 1), maxImageExtent |-> Extent(640, 480)],
     [minImageExtent |-> Extent(1, 768), maxImageExtent |-> Extent(640, 4096)],
     [minImageExtent |-> Extent(800, 600), maxImageExtent |-> Extent(800, 600)]}

SurfaceCapabilities ==
    {[minImageCount |-> c.minImageCount, maxImageCount |-> c.maxImageCount,
      currentExtent |-> e, minImageExtent |-> b.minImageExtent,
      maxImageExtent |-> b.maxImageExtent] :
        c \in ImageCounts, e \in CurrentExtents, b \in ExtentBounds}

\* suitable devices: one varies the format list, one the present mode list,
\* one the capabilities
SwapChainDevices ==
    {[GoodDevice EXCEPT !.formats = f] : f \in Lists(SurfaceFormats, MaxChoices) \ {<<>>}}
        \cup {[GoodDevice EXCEPT !.presentModes = m] :
                 m \in Lists(PresentModes, MaxChoices) \ {<<>>}}
        \cup {[GoodDevice EXCEPT !.caps = c] : c \in SurfaceCapabilities}

InitSwapChain ==
    /\ \E d \in SwapChainDevices, ft \in {<<GP>>, <<GOnly, POnly>>} :
          devices = <<[d EXCEPT !.families = ft]>>
    /\ InstanceIs(GoodInstance)
    /\ shaderFiles = ShaderFilesPresent
    /\ enableValidationLayers = FALSE
    /\ extensionsAvailable = <<TRUE>>
    /\ physicalDevice = 1
    /\ graphicsQueue = findQueueFamilies(devices[1]).graphicsFamily
    /\ presentQueue = findQueueFamilies(devices[1]).presentFamily
    /\ queueCreateInfos = BuildQueueCreateInfos(findQueueFamilies(devices[1]))
    /\ swapChainCreateInfo = <<>>
    /\ pc = "createSwapChain"
    /\ what = ""
    /\ exitCode = notExited
    /\ created = <<Obj("window"), Obj("instance"), Obj("surface"), Obj("device")>>
    /\ destroyed = <<>>
    /\ swapChainImages = 0
    /\ swapChainImageViews = 0
    /\ swapChainFramebuffers = 0
    /\ commandBuffers = <<>>
    /\ windowShouldClose = FALSE
    /\ frame = 0
    /\ imageIndex = 0
    /\ calls = <<>>
    /\ imageState = <<>>
    /\ imageAvailableSemaphore = FALSE
    /\ renderFinishedSemaphore = FALSE
    /\ pendingAcquire = {}
    /\ graphicsQueueWork = <<>>
    /\ presentQueueWork = <<>>
    /\ acquired = {}
    /\ rendered = {}
    /\ presented = {}

NextSwapChain == createSwapChain \/ mainCatch

SpecSwapChain == InitSwapChain /\ [][NextSwapChain]_vars

\* the swap chain request has been made
SwapChainRequested == swapChainCreateInfo # <<>>

\* C16: the present mode createSwapChain asks for is MAILBOX when the
\* device's present mode list contains it, and FIFO otherwise, whether or not
\* the list contains FIFO.
C16_MailboxElseFifo ==
    SwapChainRequested =>
       swapChainCreateInfo[1].presentMode =
          IF "VK_PRESENT_MODE_MAILBOX_KHR" \in Range(devices[physicalDevice].presentModes)
          THEN "VK_PRESENT_MODE_MAILBOX_KHR"
          ELSE "VK_PRESENT_MODE_FIFO_KHR"

\* FIFO was asked for on a device that lists neither MAILBOX nor FIFO
C16_Witness ==
    /\ SwapChainRequested
    /\ devices[physicalDevice].presentModes = <<"VK_PRESENT_MODE_IMMEDIATE_KHR">>
    /\ swapChainCreateInfo[1].presentMode = "VK_PRESENT_MODE_FIFO_KHR"

\* C17: the format and color space createSwapChain asks for are those of
\* the (B8G8R8A8_UNORM, SRGB_NONLINEAR) pair when the device's format list
\* contains that pair at any position, and those of element 0 of the list
\* otherwise.
C17_PreferredElseFirst ==
    SwapChainRequested =>
       LET availableFormats == devices[physicalDevice].formats
           chosen == [format |-> swapChainCreateInfo[1].imageFormat,
                      colorSpace |-> swapChainCreateInfo[1].imageColorSpace]
       IN  chosen = IF PreferredFormat \in Range(availableFormats)
                    THEN PreferredFormat
                    ELSE availableFormats[1]

\* the preferred pair was asked for on a device that lists it second
C17_Witness ==
    /\ SwapChainRequested
    /\ Len(devices[physicalDevice].formats) = 2
    /\ devices[physicalDevice].formats[1] # PreferredFormat
    /\ devices[physicalDevice].formats[2] = PreferredFormat
    /\ swapChainCreateInfo[1].imageFormat = "VK_FORMAT_B8G8R8A8_UNORM"
    /\ swapChainCreateInfo[1].imageColorSpace = "VK_COLORSPACE_SRGB_NONLINEAR_KHR"

\* v clamped into lo..hi
Clamp(v, lo, hi) == IF v < lo THEN lo ELSE IF v > hi THEN hi ELSE v

\* C18: the extent createSwapChain asks for is currentExtent as reported
\* whenever currentExtent.width is not UINT32_MAX; when it is, the extent is
\* the window size 800 x 600 with each component clamped into the reported
\* minimum and maximum, and so lies within them.
C18_CurrentElseClampedWindow ==
    SwapChainRequested =>
       LET capabilities == devices[physicalDevice].caps
           extent == swapChainCreateInfo[1].imageExtent
       IN  IF capabilities.currentExtent.width # UINT32_MAX
           THEN extent = capabilities.currentExtent
           ELSE /\ extent.width = Clamp(800, capabilities.minImageExtent.width,
                                        capabilities.maxImageExtent.width)
                /\ extent.height = Clamp(600, capabilities.minImageExtent.height,
                                         capabilities.maxImageExtent.height)
                /\ extent.width >= capabilities.minImageExtent.width
                /\ extent.width <= capabilities.maxImageExtent.width
                /\ extent.height >= capabilities.minImageExtent.height
                /\ extent.height <= capabilities.maxImageExtent.height

\* the extent was left open and the window size was clamped, the width down
\* and the height up
C18_Witness ==
    /\ SwapChainRequested
    /\ devices[physicalDevice].caps.currentExtent.width = UINT32_MAX
    /\ swapChainCreateInfo[1].imageExtent = Extent(640, 768)

\* C19: the image count createSwapChain asks for is minImageCount + 1,
\* lowered to maxImageCount when maxImageCount is not 0 and smaller; it is
\* never below minImageCount; a minimum of 2 gives 3 without a maximum and 2
\* with a maximum of 2.
C19_MinPlusOneCapped ==
    SwapChainRequested =>
       LET capabilities == devices[physicalDevice].caps
           imageCount == swapChainCreateInfo[1].minImageCount
       IN  /\ capabilities.maxImageCount = 0 => imageCount = capabilities.minImageCount + 1
           /\ capabilities.maxImageCount # 0 =>
                 imageCount = Min({capabilities.minImageCount + 1, capabilities.maxImageCount})
           /\ imageCount >= capabilities.minImageCount
           /\ (capabilities.minImageCount = 2 /\ capabilities.maxImageCount = 0) =>
                 imageCount = 3
           /\ (capabilities.minImageCount = 2 /\ capabilities.maxImageCount = 2) =>
                 imageCount = 2

\* with a minimum and a maximum of 2, 2 images were asked for
C19_Witness ==
    /\ SwapChainRequested
    /\ devices[physicalDevice].caps.minImageCount = 2
    /\ devices[physicalDevice].caps.maxImageCount = 2
    /\ swapChainCreateInfo[1].minImageCount = 2

(***************************************************************************)
(* The debug messenger.                                                    *)
(***************************************************************************)
\* how many times an object of the kind occurs in a list of objects
Count(kind, objects) == Cardinality({k \in 1..Len(objects) : objects[k].kind = kind})

\* C20: over the whole run, with validation layers disabled no debug
\* messenger is created and none is destroyed; with them enabled the
\* messenger is destroyed at most once, by cleanup only, and only after it
\* was created.
C20_MessengerLifecycle ==
    /\ ~enableValidationLayers =>
          /\ Count("debugMessenger", created) = 0
          /\ Count("debugMessenger", destroyed) = 0
    /\ enableValidationLayers =>
          /\ Count("debugMessenger", created) <= 1
          /\ Count("debugMessenger", destroyed) <= Count("debugMessenger", created)
          /\ Count("debugMessenger", destroyed) = 1 =>
                /\ pc \in {"return", "exit"}
                /\ Obj("device") \in Range(destroyed)

\* a build without validation layers has run its frames, cleaned up and
\* returned from main
C20_Witness ==
    /\ ~enableValidationLayers
    /\ pc = "exit"
    /\ exitCode = EXIT_SUCCESS
    /\ frame > 0
    /\ Obj("instance") \in Range(destroyed)
(***************************************************************************)
(* Teardown order.                                                         *)
(***************************************************************************)
\* the shader modules live inside createGraphicsPipeline only
ShaderModuleKinds == {"vertShaderModule", "fragShaderModule"}

\* a list without the repetitions of an entry right after itself
RECURSIVE Collapse(_)
Collapse(ks) ==
    IF Len(ks) <= 1
    THEN ks
    ELSE IF ks[1] = ks[2]
    THEN Collapse(Tail(ks))
    ELSE <<ks[1]>> \o Collapse(Tail(ks))

\* the kinds of the member objects in a list of objects, in the order of the
\* list, the image views and the framebuffers each taken as one group
KindOrder(objects) ==
    LET members == SelectSeq(objects, LAMBDA o : o.kind \notin ShaderModuleKinds)
    IN  Collapse([i \in 1..Len(members) |-> members[i].kind])

Reverse(s) == [i \in 1..Len(s) |-> s[Len(s) + 1 - i]]

\* s with the entries a and b exchanged, when it holds both
Exchange(s, a, b) ==
    IF a \in Range(s) /\ b \in Range(s)
    THEN [i \in 1..Len(s) |-> IF s[i] = a THEN b ELSE IF s[i] = b THEN a ELSE s[i]]
    ELSE s

CleanupRan == Obj("window") \in Range(destroyed)

\* C21 as stated: once cleanup has run, the order in which it destroyed the
\* objects is the strict reverse of the order in which initWindow and
\* initVulkan created them.
C21_StrictReverse ==
    CleanupRan => KindOrder(destroyed) = Reverse(KindOrder(created))

\* C21 as amended: once cleanup has run, the order in which it destroyed the
\* objects is the reverse of the order of their creation, except that the
\* debug messenger, when there is one, is destroyed before the surface.
C21_ReverseButMessenger ==
    CleanupRan =>
       KindOrder(destroyed) =
          Exchange(Reverse(KindOrder(created)), "debugMessenger", "surface")

\* a build with validation layers has cleaned up: all fourteen kinds of
\* objects, two image views and two framebuffers among them, are destroyed
C21_Witness ==
    /\ CleanupRan
    /\ enableValidationLayers
    /\ swapChainImageViews = 2
    /\ Len(KindOrder(destroyed)) = 14

(***************************************************************************)
(* The exit code of the process.                                           *)
(***************************************************************************)
\* every init step went through: the last object of initVulkan exists
InitSucceeded == Obj("renderFinishedSemaphore") \in Range(created)

\* an exception was thrown: each throw of the program carries a message
FatalRaised == what # ""

\* C22: main returns 0 exactly when run() completed without a fatal error
\* (every init step succeeded, the loop ended on a close request, cleanup
\* ran) and 1 exactly when a fatal error was raised in init or in the frame
\* loop; before main returns there is no exit code.
C22_ExitCode ==
    /\ pc # "exit" => exitCode = notExited
    /\ pc = "exit" =>
          /\ exitCode \in {EXIT_SUCCESS, EXIT_FAILURE}
          /\ exitCode = EXIT_SUCCESS <=>
                (~FatalRaised /\ InitSucceeded /\ windowShouldClose /\ CleanupRan)
          /\ exitCode = EXIT_FAILURE <=> FatalRaised
    /\ pc = "catch" => FatalRaised
    /\ pc = "return" => ~FatalRaised

\* a submit failed in the second frame and the process exited with 1
C22_Witness ==
    /\ pc = "exit"
    /\ exitCode = EXIT_FAILURE
    /\ what = "Failed to submit draw command buffer"
    /\ frame = 2

(***************************************************************************)
(* The shader binaries: initialization up to createGraphicsPipeline on     *)
(* every state of the two shader files.                                    *)
(***************************************************************************)
InitPipeline ==
    /\ devices \in {<<GoodDevice>>, <<SplitDevice>>}
    /\ InstanceIs(GoodInstance)
    /\ shaderFiles \in [vert : FileStates, frag : FileStates]
    /\ InitProgram

NextPipeline ==
    \/ initWindow
    \/ checkGlfwRequiredExtensionsAvailable
    \/ createInstance
    \/ setupDebugMessenger
    \/ createSurface
    \/ pickPhysicalDevice
    \/ createLogicalDevice
    \/ createSwapChain
    \/ createImageViews
    \/ createRenderPass
    \/ createGraphicsPipeline
    \/ mainCatch

SpecPipeline == InitPipeline /\ [][NextPipeline]_vars

\* createGraphicsPipeline was called and is over
PipelineStepOver ==
    /\ Obj("renderPass") \in Range(created)
    /\ pc # "createGraphicsPipeline"

PipelineKinds ==
    {"vertShaderModule", "fragShaderModule", "pipelineLayout", "graphicsPipeline"}

\* C23: if either shader binary is missing or has zero length, the call of
\* createGraphicsPipeline ends in the fatal error of the file read, and no
\* shader module, pipeline layout or pipeline has been created.
C23_BadShaderFileIsFatal ==
    (/\ PipelineStepOver
     /\ \/ shaderFiles.vert \in {"missing", "empty"}
        \/ shaderFiles.frag \in {"missing", "empty"})
       => /\ Fatal
          /\ what = "Failed to open file"
          /\ Kinds(created) \cap PipelineKinds = {}

(***************************************************************************)
(* The order of the init steps.                                            *)
(***************************************************************************)
\* the calls of initWindow and initVulkan, in the order run() makes them
InitSteps ==
    <<"initWindow", "checkGlfwRequiredExtensionsAvailable", "createInstance",
      "setupDebugMessenger", "createSurface", "pickPhysicalDevice",
      "createLogicalDevice", "createSwapChain", "createImageViews",
      "createRenderPass", "createGraphicsPipeline", "createFramebuffers",
      "createCommandPool", "createCommandBuffers", "createSemaphores">>

\* the result a step leaves behind when it returns normally
StepSucceeded(step) ==
    CASE step = "initWindow" -> Obj("window") \in Range(created)
      [] step = "checkGlfwRequiredExtensionsAvailable" -> extensionsAvailable # <<>>
      [] step = "createInstance" -> Obj("instance") \in Range(created)
      [] step = "setupDebugMessenger" ->
            enableValidationLayers => Obj("debugMessenger") \in Range(created)
      [] step = "createSurface" -> Obj("surface") \in Range(created)
      [] step = "pickPhysicalDevice" -> physicalDevice # VK_NULL_HANDLE
      [] step = "createLogicalDevice" ->
            /\ Obj("device") \in Range(created)
            /\ graphicsQueue # nullopt
            /\ presentQueue # nullopt
      [] step = "createSwapChain" ->
            Obj("swapChain") \in Range(created) /\ swapChainImages > 0
      [] step = "createImageViews" ->
            /\ swapChainImageViews = swapChainImages
            /\ Count("imageView", created) = swapChainImages
      [] step = "createRenderPass" -> Obj("renderPass") \in Range(created)
      [] step = "createGraphicsPipeline" ->
            /\ Obj("pipelineLayout") \in Range(created)
            /\ Obj("graphicsPipeline") \in Range(created)
      [] step = "createFramebuffers" ->
            /\ swapChainFramebuffers = swapChainImages
            /\ Count("framebuffer", created) = swapChainImages
      [] step = "createCommandPool" -> Obj("commandPool") \in Range(created)
      [] step = "createCommandBuffers" ->
            /\ Len(commandBuffers) = swapChainImages
            /\ \A i \in 1..Len(commandBuffers) : commandBuffers[i] = Recording
      [] step = "createSemaphores" ->
            /\ Obj("imageAvailableSemaphore") \in Range(created)
            /\ Obj("renderFinishedSemaphore") \in Range(created)

\* the positions of drawFrame
DrawFramePcs == {"vkAcquireNextImageKHR", "vkQueueSubmit", "vkQueuePresentKHR"}

\* C24: an init step is called only when every step before it in initVulkan,
\* and so every step it depends on, has returned normally and left its result;
\* drawFrame is called only when all init steps, the creation of both
\* semaphores included, have.
C24_StepsAfterDependencies ==
    /\ \A k \in 1..Len(InitSteps) :
          pc = InitSteps[k] => \A j \in 1..(k - 1) : StepSucceeded(InitSteps[j])
    /\ (pc \in DrawFramePcs \/ frame > 0) =>
          \A j \in 1..Len(InitSteps) : StepSucceeded(InitSteps[j])

\* drawFrame is running for the first time, on a device whose graphics and
\* present families differ
C24_Witness ==
    /\ pc = "vkQueueSubmit"
    /\ frame = 1
    /\ graphicsQueue # presentQueue
    /\ \A j \in 1..Len(InitSteps) : StepSucceeded(InitSteps[j])

(***************************************************************************)
(* The fatal path.                                                         *)
(***************************************************************************)
\* C25: once a fatal error is raised, control is in the catch block of main
\* or past it; the only step that follows is the return of main, which
\* creates and destroys nothing, calls no init step and draws no frame;
\* cleanup has not run and none of the member objects is destroyed.
C25_FatalUnwinds ==
    /\ [](FatalRaised =>
             /\ pc \in {"catch", "exit"}
             /\ ~CleanupRan
             /\ KindOrder(destroyed) = <<>>)
    /\ [][FatalRaised =>
             /\ pc = "catch"
             /\ pc' = "exit"
             /\ UNCHANGED <<what, objVars, loopVars, gpuVars>>]_vars

\* the second semaphore could not be created: main has returned, the first
\* semaphore and the objects before it exist and none of them is destroyed
C25_Witness ==
    /\ pc = "exit"
    /\ what = "Failed to create semaphores"
    /\ Obj("imageAvailableSemaphore") \in Range(created)
    /\ KindOrder(destroyed) = <<>>

(***************************************************************************)
(* One image view, framebuffer and command buffer per swap chain image.    *)
(***************************************************************************)
\* the number of images the runtime put in the swap chain
SwapChainImageCount == Cardinality(DOMAIN imageState)

\* the calls of vkAcquireNextImageKHR that handed out an image
SuccessfulAcquires ==
    {k \in 1..Len(calls) :
        calls[k].op = "vkAcquireNextImageKHR" /\ AcquiresImage(calls[k].result)}

RecordedVars == <<commandBuffers, created, destroyed, chainVars, swapChainCreateInfo>>

\* C27: every command buffer is recorded once, by createCommandBuffers, with
\* begin, begin-render-pass, bind-pipeline, draw(3 vertices, 1 instance),
\* end-render-pass, end; from then on all of them hold this sequence, and no
\* step of mainLoop or drawFrame changes a command buffer, the pipeline, the
\* render pass, the framebuffers or the swap chain request.
C27_RecordedOnce ==
    /\ [](InitSucceeded =>
             \A i \in 1..Len(commandBuffers) :
                commandBuffers[i] =
                   <<"vkBeginCommandBuffer", "vkCmdBeginRenderPass", "vkCmdBindPipeline",
                     "vkCmdDraw(3, 1, 0, 0)", "vkCmdEndRenderPass", "vkEndCommandBuffer">>)
    /\ [][commandBuffers' # commandBuffers =>
             pc = "createCommandBuffers" /\ commandBuffers = <<>>]_vars
    /\ [][(pc \in DrawFramePcs \cup {"mainLoop", "glfwPollEvents"}) =>
             UNCHANGED RecordedVars]_vars

\* two frames were drawn, with both command buffers, and the loop is back
\* at its test
C27_Witness ==
    /\ pc = "mainLoop"
    /\ frame = 2
    /\ Len(commandBuffers) >= 2
    /\ {calls[k].index : k \in {j \in 1..Len(calls) : calls[j].op = "vkQueueSubmit"}} = {0, 1}
    /\ \A i \in 1..Len(commandBuffers) : commandBuffers[i] = Recording

(***************************************************************************)
(* The end of the frame loop.  The application thread is scheduled and the *)
(* device and the presentation engine make progress: weak fairness on the  *)
(* steps of each.                                                          *)
(***************************************************************************)
\* the steps of the application thread
ThreadNext ==
    \/ initWindow
    \/ checkGlfwRequiredExtensionsAvailable
    \/ createInstance
    \/ setupDebugMessenger
    \/ createSurface
    \/ pickPhysicalDevice
    \/ createLogicalDevice
    \/ createSwapChain
    \/ createImageViews
    \/ createRenderPass
    \/ createGraphicsPipeline
    \/ createFramebuffers
    \/ createCommandPool
    \/ createCommandBuffers
    \/ createSemaphores
    \/ mainLoop
    \/ glfwPollEvents
    \/ vkAcquireNextImageKHR
    \/ vkQueueSubmit
    \/ vkQueuePresentKHR
    \/ cleanup
    \/ mainReturn
    \/ mainCatch

Fairness ==
    /\ WF_vars(ThreadNext)
    /\ WF_vars(signalImageAvailable)
    /\ WF_vars(executeCommandBuffer)
    /\ WF_vars(presentImage)

\* one system, one build: a single suitable GPU, no validation layers
InitLive ==
    /\ devices = <<GoodDevice>>
    /\ InstanceIs(GoodInstance)
    /\ shaderFiles = ShaderFilesPresent
    /\ InitProgram
    /\ ~enableValidationLayers

SpecLive == InitLive /\ [][Next]_vars /\ Fairness

\* the acquire of the running drawFrame waits for an image
AcquireBlocked ==
    /\ pc = "vkAcquireNextImageKHR"
    /\ \A i \in DOMAIN imageState : imageState[i] # "free"

\* the loop test has seen the close flag
LoopLeft == ~FatalRaised /\ pc \in {"cleanup", "return", "exit"}

\* C28: the close flag is tested once per iteration, before the event pump
\* and drawFrame: a frame starts only from a test that found the flag clear.
\* Once the flag is set then, unless a fatal error is raised, the process
\* crashes or an acquire never returns, the loop is left, cleanup runs
\* exactly once and main returns 0; after the test has found the flag set
\* no drawFrame starts.
C28_CloseEndsLoop ==
    /\ [][(pc = "mainLoop" /\ pc' # pc) =>
             IF windowShouldClose THEN pc' = "cleanup" ELSE pc' = "glfwPollEvents"]_vars
    /\ [][(pc' = "glfwPollEvents" /\ pc' # pc) => pc = "mainLoop"]_vars
    /\ [][(pc' = "vkAcquireNextImageKHR" /\ pc' # pc) => pc = "glfwPollEvents"]_vars
    /\ [][LoopLeft => (LoopLeft' /\ frame' = frame /\ calls' = calls)]_vars
    /\ [](pc = "exit" /\ ~FatalRaised => Count("window", destroyed) = 1)
    /\ (windowShouldClose /\ InitSucceeded) ~>
          \/ pc = "exit" /\ exitCode = EXIT_SUCCESS /\ Count("window", destroyed) = 1
          \/ FatalRaised
          \/ pc = "crashed"
          \/ AcquireBlocked

\* the close event arrived while the second frame was pumped: that frame was
\* drawn, the next test left the loop, cleanup ran and main returned
C28_Witness ==
    /\ pc = "exit"
    /\ exitCode = EXIT_SUCCESS
    /\ windowShouldClose
    /\ frame = 2
    /\ LastCall.op = "vkQueuePresentKHR"
    /\ Count("window", destroyed) = 1

(***************************************************************************)
(* Children before parents.                                                *)
(***************************************************************************)
\* the kind of the object a create call is given as the owner of the new one
ParentKind ==
    [debugMessenger |-> "instance", surface |-> "instance",
     swapChain |-> "device", imageView |-> "swapChain", renderPass |-> "device",
     vertShaderModule |-> "device", fragShaderModule |-> "device",
     pipelineLayout |-> "device", graphicsPipeline |-> "device",
     framebuffer |-> "device", commandPool |-> "device",
     imageAvailableSemaphore |-> "device", renderFinishedSemaphore |-> "device"]

\* the objects an object was created from: its owner, and for an image view
\* the device as well
ParentsOf(object) ==
    IF object.kind \in DOMAIN ParentKind
    THEN {Obj(ParentKind[object.kind])}
            \cup (IF object.kind = "imageView" THEN {Obj("device")} ELSE {})
    ELSE {}

\* C29: whenever an object is destroyed, every object created from it has
\* been destroyed before it (the image views before the swap chain, every
\* device-level object before the logical device, the debug messenger and
\* the surface before the instance), and no object is destroyed twice.
C29_ChildrenFirst ==
    /\ \A i, j \in 1..Len(destroyed) : destroyed[i] = destroyed[j] => i = j
    /\ \A j \in 1..Len(destroyed) :
          \A c \in 1..Len(created) :
             destroyed[j] \in ParentsOf(created[c]) =>
                \E i \in 1..(j - 1) : destroyed[i] = created[c]

\* cleanup has run in a build with validation layers: with two image views
\* and two framebuffers, eighteen objects were destroyed, the shader modules
\* first
C29_Witness ==
    /\ pc = "return"
    /\ enableValidationLayers
    /\ Len(destroyed) = 18
    /\ Obj("device") \in Range(destroyed)
====
